---- MODULE Spec2Model ----
(***************************************************************************)
(* Model of pyhanko/pdf_utils/layout.py: BoxConstraints (a box whose       *)
(* width, height and aspect ratio are resolved at most once), Margins,     *)
(* AxisAlignment.align and SimpleBoxLayoutRule.fit.                        *)
(*                                                                         *)
(* Numbers.  Python mixes int, Fraction and float here.  Every number is   *)
(* modelled by its exact rational value <<n, d>>, d > 0, in lowest terms;  *)
(* an int k is <<k, 1>>.  None is the empty tuple.  The float quotients of *)
(* fit (eff / inner) are modelled by their exact value: for the small      *)
(* operands of the model the rounding of a double never changes the order  *)
(* of two quotients.                                                       *)
(***************************************************************************)
EXTENDS Integers, Sequences, FiniteSets, TLC

\* ---------------------------------------------------------------- bounds
MaxDim == 3        \* widths / heights given to the constructor and setters
MaxRat == 2        \* numerators / denominators of the aspect ratios
MaxMargin == 1     \* each of the four margins is 0 or MaxMargin
MaxInner == 2      \* natural width / height of the inner content: 1 or MaxInner

\* ------------------------------------------------------------ arithmetic
None == <<>>

Abs(n) == IF n < 0 THEN -n ELSE n

RECURSIVE Gcd(_, _)
Gcd(a, b) == IF b = 0 THEN a ELSE Gcd(b, a % b)

\* the rational n/d in lowest terms (d # 0)
Rat(n, d) ==
    IF d = 1 THEN <<n, 1>>
    ELSE LET s == IF d < 0 THEN -1 ELSE 1
             g == Gcd(Abs(n), Abs(d))
         IN  <<(s * n) \div g, (s * d) \div g>>

Num(k) == <<k, 1>>

Add(a, b) == Rat(a[1] * b[2] + b[1] * a[2], a[2] * b[2])
Sub(a, b) == Rat(a[1] * b[2] - b[1] * a[2], a[2] * b[2])
Mul(a, b) == Rat(a[1] * b[1], a[2] * b[2])
Div(a, b) == Rat(a[1] * b[2], a[2] * b[1])
Less(a, b) == a[1] * b[2] < b[1] * a[2]
Min2(a, b) == IF Less(b, a) THEN b ELSE a
IsInteger(a) == a[2] = 1

\* Python int(x): truncation toward zero
Trunc(a) == IF a[1] >= 0 THEN Num(a[1] \div a[2])
            ELSE Num(-((-a[1]) \div a[2]))
\* Python x // k for an int k > 0: floor
FloorDiv(a, k) == Num(a[1] \div (a[2] * k))

\* --------------------------------------------------------- BoxConstraints
\* _fully_specified is "unset" when __init__ returned before assigning it
Box(w, h, ar, fs) == [w |-> w, h |-> h, ar |-> ar, fs |-> fs]

\* BoxConstraints.__init__; arguments are None or numbers.
\* status "BoxSpecificationError" when overspecified (no object is built).
BoxConstraints(width, height, aspect_ratio) ==
    IF width = None /\ height = None /\ aspect_ratio = None
    THEN [status |-> "ok", box |-> Box(None, None, None, "unset")]
    ELSE IF width # None /\ height # None
    THEN IF aspect_ratio # None
         THEN [status |-> "BoxSpecificationError",
               box |-> Box(None, None, None, "unset")]
         ELSE [status |-> "ok",
               box |-> Box(width, height, Div(width, height), "True")]
    ELSE IF aspect_ratio # None
    THEN IF height # None
         THEN [status |-> "ok",
               box |-> Box(Mul(height, aspect_ratio), height,
                           aspect_ratio, "False")]
         ELSE IF width # None
         THEN [status |-> "ok",
               box |-> Box(width, Div(width, aspect_ratio),
                           aspect_ratio, "False")]
         ELSE [status |-> "ok",
               box |-> Box(None, None, aspect_ratio, "False")]
    ELSE [status |-> "ok", box |-> Box(width, height, None, "False")]

\* mutant of _recalculate: the derived dimension is not truncated
recalculate_exact(b) ==
    IF b.w # None /\ b.h # None
    THEN [b EXCEPT !.ar = Div(b.w, b.h), !.fs = "True"]
    ELSE IF b.ar # None
    THEN IF b.h # None
         THEN [b EXCEPT !.w = Mul(b.h, b.ar), !.fs = "True"]
         ELSE IF b.w # None
         THEN [b EXCEPT !.h = Div(b.w, b.ar), !.fs = "True"]
         ELSE b
    ELSE b

\* BoxConstraints._recalculate
_recalculate(b) ==
    IF b.w # None /\ b.h # None
    THEN [b EXCEPT !.ar = Div(b.w, b.h), !.fs = "True"]
    ELSE IF b.ar # None
    THEN IF b.h # None
         THEN [b EXCEPT !.w = Trunc(Mul(b.h, b.ar)), !.fs = "True"]
         ELSE IF b.w # None
         THEN [b EXCEPT !.h = Trunc(Div(b.w, b.ar)), !.fs = "True"]
         ELSE b
    ELSE b

width_defined(b) == b.w # None
height_defined(b) == b.h # None
aspect_ratio_defined(b) == b.ar # None

\* mutant of width_setter: no check that the width is still unset
width_setter_overwrite(b, width) ==
    [status |-> "ok", box |-> _recalculate([b EXCEPT !.w = width])]

\* BoxConstraints.width (setter)
width_setter(b, width) ==
    IF b.w = None
    THEN [status |-> "ok", box |-> _recalculate([b EXCEPT !.w = width])]
    ELSE [status |-> "BoxSpecificationError", box |-> b]

\* BoxConstraints.height (setter)
height_setter(b, height) ==
    IF b.h = None
    THEN [status |-> "ok", box |-> _recalculate([b EXCEPT !.h = height])]
    ELSE [status |-> "BoxSpecificationError", box |-> b]

\* ---------------------------------------------------------------- Margins
Margins(left, right, top, bottom) ==
    [left |-> left, right |-> right, top |-> top, bottom |-> bottom]

\* mutant of Margins_effective: an empty interior is rejected as well
Margins_effective_strict(container_len, pre, post) ==
    LET eff == Sub(Sub(container_len, Num(pre)), Num(post))
    IN  IF ~Less(Num(0), eff)
        THEN [status |-> "LayoutError", value |-> None]
        ELSE [status |-> "ok", value |-> eff]

\* Margins.effective (dim_name only feeds the error message)
Margins_effective(container_len, pre, post) ==
    LET eff == Sub(Sub(container_len, Num(pre)), Num(post))
    IN  IF Less(eff, Num(0))
        THEN [status |-> "LayoutError", value |-> None]
        ELSE [status |-> "ok", value |-> eff]

effective_width(m, width) == Margins_effective(width, m.left, m.right)
effective_height(m, height) == Margins_effective(height, m.bottom, m.top)

\* ---------------------------------------------------------- AxisAlignment
AxisAlignment == {"ALIGN_MIN", "ALIGN_MID", "ALIGN_MAX"}
InnerScaling == {"NO_SCALING", "STRETCH_FILL", "STRETCH_TO_FIT",
                 "SHRINK_TO_FIT"}

\* mutant of align: the overflow test comes before the ALIGN_MIN / ALIGN_MAX
\* branches
align_overflow_first(self, container_len, inner_len, pre_margin, post_margin) ==
    LET e == Margins_effective(container_len, pre_margin, post_margin)
    IN  IF e.status # "ok"
        THEN [status |-> e.status, value |-> None, warnings |-> 0]
        ELSE IF Less(e.value, inner_len)
        THEN [status |-> "ok", value |-> Num(pre_margin), warnings |-> 1]
        ELSE IF self = "ALIGN_MAX"
        THEN [status |-> "ok",
              value |-> Sub(Sub(container_len, inner_len), Num(post_margin)),
              warnings |-> 0]
        ELSE IF self = "ALIGN_MIN"
        THEN [status |-> "ok", value |-> Num(pre_margin), warnings |-> 0]
        ELSE [status |-> "ok",
              value |-> Add(Num(pre_margin),
                            FloorDiv(Sub(e.value, inner_len), 2)),
              warnings |-> 0]

\* AxisAlignment.align; warnings counts the calls of logger.warning
align(self, container_len, inner_len, pre_margin, post_margin) ==
    LET e == Margins_effective(container_len, pre_margin, post_margin)
    IN  IF e.status # "ok"
        THEN [status |-> e.status, value |-> None, warnings |-> 0]
        ELSE IF self = "ALIGN_MAX"
        THEN [status |-> "ok",
              value |-> Sub(Sub(container_len, inner_len), Num(post_margin)),
              warnings |-> 0]
        ELSE IF self = "ALIGN_MIN"
        THEN [status |-> "ok", value |-> Num(pre_margin), warnings |-> 0]
        ELSE IF Less(e.value, inner_len)
        THEN [status |-> "ok", value |-> Num(pre_margin), warnings |-> 1]
        ELSE [status |-> "ok",
              value |-> Add(Num(pre_margin),
                            FloorDiv(Sub(e.value, inner_len), 2)),
              warnings |-> 0]

\* mutant of _aln_width: the container width is written without asking
\* whether it is defined
aln_width_always_write(alignment, container_box, inner_nat_width, pre_margin, post_margin) ==
    LET s == width_setter(container_box,
                 Add(Add(inner_nat_width, Num(pre_margin)), Num(post_margin)))
    IN  [status |-> s.status, box |-> s.box,
         value |-> IF s.status = "ok" THEN Num(pre_margin) ELSE None,
         warnings |-> 0]

\* mutant of _aln_width: the post margin is left out of the auto-sized width
aln_width_no_post(alignment, container_box, inner_nat_width, pre_margin, post_margin) ==
    IF width_defined(container_box)
    THEN LET a == align(alignment, container_box.w, inner_nat_width,
                        pre_margin, post_margin)
         IN  [status |-> a.status, box |-> container_box,
              value |-> a.value, warnings |-> a.warnings]
    ELSE LET s == width_setter(container_box,
                 Add(inner_nat_width, Num(pre_margin)))
         IN  [status |-> s.status, box |-> s.box,
              value |-> IF s.status = "ok" THEN Num(pre_margin) ELSE None,
              warnings |-> 0]

\* _aln_width
_aln_width(alignment, container_box, inner_nat_width, pre_margin, post_margin) ==
    IF width_defined(container_box)
    THEN LET a == align(alignment, container_box.w, inner_nat_width,
                        pre_margin, post_margin)
         IN  [status |-> a.status, box |-> container_box,
              value |-> a.value, warnings |-> a.warnings]
    ELSE LET s == width_setter(container_box,
                 Add(Add(inner_nat_width, Num(pre_margin)), Num(post_margin)))
         IN  [status |-> s.status, box |-> s.box,
              value |-> IF s.status = "ok" THEN Num(pre_margin) ELSE None,
              warnings |-> 0]

\* mutant of _aln_height: the post margin is left out of the auto-sized height
aln_height_no_post(alignment, container_box, inner_nat_height, pre_margin, post_margin) ==
    IF height_defined(container_box)
    THEN LET a == align(alignment, container_box.h, inner_nat_height,
                        pre_margin, post_margin)
         IN  [status |-> a.status, box |-> container_box,
              value |-> a.value, warnings |-> a.warnings]
    ELSE LET s == height_setter(container_box,
                 Add(inner_nat_height, Num(pre_margin)))
         IN  [status |-> s.status, box |-> s.box,
              value |-> IF s.status = "ok" THEN Num(pre_margin) ELSE None,
              warnings |-> 0]

\* _aln_height
_aln_height(alignment, container_box, inner_nat_height, pre_margin, post_margin) ==
    IF height_defined(container_box)
    THEN LET a == align(alignment, container_box.h, inner_nat_height,
                        pre_margin, post_margin)
         IN  [status |-> a.status, box |-> container_box,
              value |-> a.value, warnings |-> a.warnings]
    ELSE LET s == height_setter(container_box,
                 Add(Add(inner_nat_height, Num(pre_margin)), Num(post_margin)))
         IN  [status |-> s.status, box |-> s.box,
              value |-> IF s.status = "ok" THEN Num(pre_margin) ELSE None,
              warnings |-> 0]

\* ---------------------------------------------------- SimpleBoxLayoutRule
SimpleBoxLayoutRule(x_align, y_align, margins, inner_content_scaling) ==
    [x_align |-> x_align, y_align |-> y_align, margins |-> margins,
     inner_content_scaling |-> inner_content_scaling]

\* mutant of select_scale: SHRINK_TO_FIT may scale up
select_scale_no_cap(scaling, x_scale, y_scale) ==
    IF scaling \in {"STRETCH_TO_FIT", "SHRINK_TO_FIT"}
    THEN <<Min2(x_scale, y_scale), Min2(x_scale, y_scale)>>
    ELSE <<x_scale, y_scale>>

\* fit, the branch on the scaling rule once both base scales are known
select_scale(scaling, x_scale, y_scale) ==
    IF scaling = "STRETCH_TO_FIT"
    THEN <<Min2(x_scale, y_scale), Min2(x_scale, y_scale)>>
    ELSE IF scaling = "SHRINK_TO_FIT"
    THEN <<Min2(Min2(x_scale, y_scale), Num(1)),
           Min2(Min2(x_scale, y_scale), Num(1))>>
    ELSE <<x_scale, y_scale>>

\* fit, scale selection: status and the pair <<x_scale, y_scale>>
fit_scale(self, container_box, inner_nat_width, inner_nat_height) ==
    IF self.inner_content_scaling # "NO_SCALING"
       /\ width_defined(container_box) /\ height_defined(container_box)
    THEN LET ew == effective_width(self.margins, container_box.w)
             eh == effective_height(self.margins, container_box.h)
         IN  IF ew.status # "ok"
             THEN [status |-> ew.status, scale |-> None]
             ELSE IF eh.status # "ok"
             THEN [status |-> eh.status, scale |-> None]
             ELSE [status |-> "ok",
                   scale |-> select_scale(self.inner_content_scaling,
                                 Div(ew.value, Num(inner_nat_width)),
                                 Div(eh.value, Num(inner_nat_height)))]
    ELSE [status |-> "ok", scale |-> <<Num(1), Num(1)>>]

Positioning(x_pos, y_pos, x_scale, y_scale) ==
    [x_pos |-> x_pos, y_pos |-> y_pos, x_scale |-> x_scale, y_scale |-> y_scale]
NoPos == Positioning(None, None, None, None)

\* SimpleBoxLayoutRule.fit: the status, the Positioning returned (NoPos when
\* an error is raised), the container as fit leaves it, the container as the
\* width step left it (mid), and the number of warnings
fit(self, container_box, inner_nat_width, inner_nat_height) ==
    LET m == self.margins
        sc == fit_scale(self, container_box, inner_nat_width, inner_nat_height)
    IN  IF sc.status # "ok"
        THEN [status |-> sc.status, pos |-> NoPos, box |-> container_box,
              mid |-> container_box, warnings |-> 0]
        ELSE
        LET x == _aln_width(self.x_align, container_box,
                            Mul(Num(inner_nat_width), sc.scale[1]),
                            m.left, m.right)
        IN  IF x.status # "ok"
            THEN [status |-> x.status, pos |-> NoPos, box |-> x.box,
                  mid |-> x.box, warnings |-> x.warnings]
            ELSE
            LET y == _aln_height(self.y_align, x.box,
                                 Mul(Num(inner_nat_height), sc.scale[2]),
                                 m.bottom, m.top)
            IN  IF y.status # "ok"
                THEN [status |-> y.status, pos |-> NoPos, box |-> y.box,
                      mid |-> x.box, warnings |-> x.warnings + y.warnings]
                ELSE [status |-> "ok",
                      pos |-> Positioning(x.value, y.value,
                                          sc.scale[1], sc.scale[2]),
                      box |-> y.box, mid |-> x.box,
                      warnings |-> x.warnings + y.warnings]

\* ------------------------------------------------------------ the machine
\* box      the one BoxConstraints object
\* last     the most recent call (the construction at first): its arguments,
\*          its outcome and the box before it (pre)
\* over     the layout attempt is over: fit (or the margin or alignment
\*          computation on its own) has been carried out
\* returned some fit call on the box has returned a Positioning
VARIABLES box, last, over, returned
vars == <<box, last, over, returned>>

Dims == {Num(k) : k \in 1..MaxDim}
Ratios == {Rat(n, d) : n \in 1..MaxRat, d \in 1..MaxRat}
MarginVals == {0, MaxMargin}
InnerVals == {1, MaxInner}
Lens == 0..(MaxInner + 2 * MaxMargin)
EffLens == 0..(2 * MaxMargin)
AllMargins == {Margins(l, r, t, b) :
                  l \in MarginVals, r \in MarginVals,
                  t \in MarginVals, b \in MarginVals}
Rules == {SimpleBoxLayoutRule(xa, ya, m, s) :
             xa \in AxisAlignment, ya \in AxisAlignment,
             m \in AllMargins, s \in InnerScaling}

NoRule == SimpleBoxLayoutRule("ALIGN_MIN", "ALIGN_MIN", Margins(0, 0, 0, 0),
                              "NO_SCALING")

Call(op, self, rule, args, status, value, pos, warnings, pre, mid) ==
    [op |-> op, self |-> self, rule |-> rule, args |-> args,
     status |-> status, value |-> value, pos |-> pos,
     warnings |-> warnings, pre |-> pre, mid |-> mid]

\* construction: every call of BoxConstraints(...) that returns an object
Init ==
    \E w \in Dims \cup {None}, h \in Dims \cup {None},
       ar \in Ratios \cup {None} :
        \E c \in {BoxConstraints(w, h, ar)} :
            /\ c.status = "ok"
            /\ box = c.box
            /\ last = Call("init", "ALIGN_MIN", NoRule, <<w, h, ar>>, "ok", None,
                           NoPos, 0, c.box, c.box)
            /\ over = FALSE
            /\ returned = FALSE

\* box.width = v
SetWidth ==
    \E v \in Dims :
        \E r \in {width_setter(box, v)} :
            /\ box' = r.box
            /\ last' = Call("setWidth", "ALIGN_MIN", NoRule, <<v>>, r.status,
                            None, NoPos, 0, box, box)
            /\ UNCHANGED <<over, returned>>

\* box.height = v
SetHeight ==
    \E v \in Dims :
        \E r \in {height_setter(box, v)} :
            /\ box' = r.box
            /\ last' = Call("setHeight", "ALIGN_MIN", NoRule, <<v>>, r.status,
                            None, NoPos, 0, box, box)
            /\ UNCHANGED <<over, returned>>

\* rule.fit(box, iw, ih) for any rule; the call is recorded in full
Fit ==
    \E rule \in Rules, iw \in InnerVals, ih \in InnerVals :
        \E r \in {fit(rule, box, iw, ih)} :
            /\ box' = r.box
            /\ last' = Call("fit", "ALIGN_MIN", rule, <<iw, ih>>, r.status,
                            None, r.pos, r.warnings, box, r.mid)
            /\ over' = TRUE
            /\ returned' = (returned \/ r.status = "ok")

\* rule.fit(box, iw, ih) for any rule; only the outcome is recorded
Refit ==
    \E rule \in Rules, iw \in InnerVals, ih \in InnerVals :
        \E r \in {fit(rule, box, iw, ih)} :
            /\ box' = r.box
            /\ last' = Call("fit", "ALIGN_MIN", NoRule, <<>>, r.status,
                            None, NoPos, 0, r.box, r.box)
            /\ over' = TRUE
            /\ returned' = (returned \/ r.status = "ok")

\* Margins.effective(name, len, pre, post)
Effective ==
    \E len \in EffLens, pre \in MarginVals, post \in MarginVals :
        \E e \in {Margins_effective(Num(len), pre, post)} :
            /\ last' = Call("effective", "ALIGN_MIN", NoRule,
                            <<len, pre, post>>, e.status, e.value, NoPos, 0,
                            box, box)
            /\ over' = TRUE
            /\ UNCHANGED <<box, returned>>

\* a.align(len, inner, pre, post)
Align ==
    \E a \in AxisAlignment, len \in Lens, inner \in InnerVals,
       pre \in MarginVals, post \in MarginVals :
        \E r \in {align(a, Num(len), Num(inner), pre, post)} :
            /\ last' = Call("align", a, NoRule, <<len, inner, pre, post>>,
                            r.status, r.value, NoPos, r.warnings, box, box)
            /\ over' = TRUE
            /\ UNCHANGED <<box, returned>>

\* one layout attempt: construction, any setter calls, then fit (or the
\* margin computation on its own), after which the box is discarded
Next == ~over /\ (SetWidth \/ SetHeight \/ Fit \/ Effective)
Spec == Init /\ [][Next]_vars

\* a box that is written and laid out again and again, whatever was raised
NextSeq == SetWidth \/ SetHeight \/ Refit
SpecSeq == Init /\ [][NextSeq]_vars

\* the alignment function on its own
NextAlign == Align
SpecAlign == Init /\ [][NextAlign]_vars

\* ----------------------------------------------------------- properties
Known(x) == x # None
LessEq(a, b) == ~Less(b, a)
\* t is x truncated toward zero, for x >= 0
IsTruncOf(t, x) ==
    IsInteger(t) /\ LessEq(t, x) /\ Less(x, Add(t, Num(1)))
\* m is the least element of the set S of numbers
IsMinOf(m, S) == m \in S /\ \A x \in S : LessEq(m, x)
IsSetter == last.op \in {"setWidth", "setHeight"}

\* C1: a resolved width or height is never changed by a later setter or fit
\* call, and a setter called on a resolved dimension fails with
\* BoxSpecificationError and leaves the whole box as it was.
C1_WriteOnce ==
    [][ /\ (Known(box.w) => box'.w = box.w)
        /\ (Known(box.h) => box'.h = box.h)
        /\ (last'.op = "setWidth" /\ Known(box.w)
               => last'.status = "BoxSpecificationError" /\ box' = box)
        /\ (last'.op = "setHeight" /\ Known(box.h)
               => last'.status = "BoxSpecificationError" /\ box' = box)
      ]_vars

\* a setter was refused on a box whose dimensions an earlier fit had resolved
C1_Witness ==
    /\ last.op = "setWidth"
    /\ last.status = "BoxSpecificationError"
    /\ returned
    /\ Known(box.w) /\ Known(box.h)

\* C2: after a successful setter the box is the written box with the third
\* quantity derived: the ratio w/h exactly when both dimensions are known,
\* else the missing dimension truncated toward zero when the ratio is known;
\* and then two known quantities imply all three and the flag.
C2_Recalculation ==
    (IsSetter /\ last.status = "ok") =>
        LET v == last.args[1]
            p == last.pre
            wr == IF last.op = "setWidth" THEN [p EXCEPT !.w = v]
                  ELSE [p EXCEPT !.h = v]
            n == (IF Known(box.w) THEN 1 ELSE 0)
                 + (IF Known(box.h) THEN 1 ELSE 0)
                 + (IF Known(box.ar) THEN 1 ELSE 0)
        IN  /\ IF Known(wr.w) /\ Known(wr.h)
               THEN /\ box.w = wr.w /\ box.h = wr.h
                    /\ box.ar = Div(wr.w, wr.h)
                    /\ box.fs = "True"
               ELSE IF Known(wr.ar) /\ Known(wr.h)
               THEN /\ box.h = wr.h /\ box.ar = wr.ar
                    /\ Known(box.w)
                    /\ IsTruncOf(box.w, Mul(wr.h, wr.ar))
                    /\ box.fs = "True"
               ELSE IF Known(wr.ar) /\ Known(wr.w)
               THEN /\ box.w = wr.w /\ box.ar = wr.ar
                    /\ Known(box.h)
                    /\ IsTruncOf(box.h, Div(wr.w, wr.ar))
                    /\ box.fs = "True"
               ELSE box = wr
            /\ (n >= 2 => n = 3 /\ box.fs = "True")

\* a setter derived a dimension whose exact value is not an integer
C2_Witness ==
    /\ last.op = "setHeight" /\ last.status = "ok"
    /\ Known(last.pre.ar) /\ Known(box.w)
    /\ ~IsInteger(Mul(box.h, box.ar))
    /\ box.fs = "True"

\* C3: a box constructed from an aspect ratio and one dimension has the same
\* other dimension as a box constructed from the ratio alone whose dimension
\* is then assigned (the truncated product or quotient).
C3_CtorSameAsSetter ==
    (last.op = "init" /\ Known(last.args[3])) =>
        LET w == last.args[1]
            h == last.args[2]
            ar == last.args[3]
            b0 == BoxConstraints(None, None, ar).box
        IN  /\ (Known(h) /\ ~Known(w) => box.w = height_setter(b0, h).box.w)
            /\ (Known(w) /\ ~Known(h) => box.h = width_setter(b0, w).box.h)

\* C4: a resolved width or height is a positive integer.
C4_PositiveInteger ==
    /\ (Known(box.w) => IsInteger(box.w) /\ box.w[1] > 0)
    /\ (Known(box.h) => IsInteger(box.h) /\ box.h[1] > 0)

\* the most recent call is a fit that returned a Positioning
FitReturned == last.op = "fit" /\ last.status = "ok"
FitLeft == Num(last.rule.margins.left)
FitRight == Num(last.rule.margins.right)
FitTop == Num(last.rule.margins.top)
FitBottom == Num(last.rule.margins.bottom)
FitInnerW == Num(last.args[1])
FitInnerH == Num(last.args[2])
\* the base scales of the claim: effective length over natural length
FitXs == Div(Sub(Sub(last.pre.w, FitLeft), FitRight), FitInnerW)
FitYs == Div(Sub(Sub(last.pre.h, FitBottom), FitTop), FitInnerH)
FitScaled ==
    /\ last.rule.inner_content_scaling # "NO_SCALING"
    /\ Known(last.pre.w) /\ Known(last.pre.h)

\* C5: the scales fit returns are min(xs, ys) twice for STRETCH_TO_FIT,
\* min(xs, ys, 1) twice for SHRINK_TO_FIT and (xs, ys) for STRETCH_FILL when
\* the policy scales and the container had both dimensions on entry, and
\* (1, 1) otherwise.
C5_ScaleSelection ==
    FitReturned =>
        LET sx == last.pos.x_scale
            sy == last.pos.y_scale
            pol == last.rule.inner_content_scaling
        IN  IF FitScaled
            THEN IF pol = "STRETCH_TO_FIT"
                 THEN IsMinOf(sx, {FitXs, FitYs}) /\ sy = sx
                 ELSE IF pol = "SHRINK_TO_FIT"
                 THEN IsMinOf(sx, {FitXs, FitYs, Num(1)}) /\ sy = sx
                 ELSE sx = FitXs /\ sy = FitYs
            ELSE sx = Num(1) /\ sy = Num(1)

\* SHRINK_TO_FIT met a container larger than the content on both axes and
\* kept the natural size
C5_Witness ==
    /\ FitReturned /\ FitScaled
    /\ last.rule.inner_content_scaling = "SHRINK_TO_FIT"
    /\ Less(Num(1), FitXs) /\ Less(Num(1), FitYs)
    /\ last.pos.x_scale = Num(1)

\* C6: fit on a box with nothing resolved returns scales 1, offsets equal to
\* the left and bottom margins, and sizes the box to the content plus the
\* margins of each axis.
C6_FitUnresolved ==
    (last.op = "fit" /\ ~Known(last.pre.w) /\ ~Known(last.pre.h)
        /\ ~Known(last.pre.ar)) =>
        /\ last.status = "ok"
        /\ last.pos = Positioning(FitLeft, FitBottom, Num(1), Num(1))
        /\ box.w = Add(Add(FitInnerW, FitLeft), FitRight)
        /\ box.h = Add(Add(FitInnerH, FitBottom), FitTop)

\* an unresolved box was laid out with a right and a top margin
C6_Witness ==
    /\ FitReturned
    /\ ~Known(last.pre.w) /\ ~Known(last.pre.h) /\ ~Known(last.pre.ar)
    /\ last.rule.margins.right > 0 /\ last.rule.margins.top > 0
    /\ last.rule.inner_content_scaling = "STRETCH_FILL"
    /\ last.rule.y_align = "ALIGN_MAX"

\* C7 as stated: on each axis whose dimension was unresolved when fit was
\* called, fit leaves the dimension at scaled length plus both margins and
\* returns the pre-margin as the offset.
C7_PerAxisAutoSize ==
    FitReturned =>
        /\ (~Known(last.pre.w) =>
               /\ box.w = Add(Add(Mul(FitInnerW, last.pos.x_scale), FitLeft),
                              FitRight)
               /\ last.pos.x_pos = FitLeft)
        /\ (~Known(last.pre.h) =>
               /\ box.h = Add(Add(Mul(FitInnerH, last.pos.y_scale), FitBottom),
                              FitTop)
               /\ last.pos.y_pos = FitBottom)

\* C7 amended: the width is auto-sized as stated; the height is auto-sized
\* as stated when the box holds no aspect ratio; a box that holds only an
\* aspect ratio gets the height truncated from auto-sized width / ratio, and
\* the content is aligned in that height.
C7_AutoSizeUnlessRatio ==
    FitReturned =>
        /\ (~Known(last.pre.w) =>
               /\ box.w = Add(Add(Mul(FitInnerW, last.pos.x_scale), FitLeft),
                              FitRight)
               /\ last.pos.x_pos = FitLeft)
        /\ (~Known(last.pre.h) /\ ~Known(last.pre.ar) =>
               /\ box.h = Add(Add(Mul(FitInnerH, last.pos.y_scale), FitBottom),
                              FitTop)
               /\ last.pos.y_pos = FitBottom)
        /\ (~Known(last.pre.h) /\ Known(last.pre.ar) =>
               /\ ~Known(last.pre.w)
               /\ IsTruncOf(box.h, Div(box.w, last.pre.ar))
               /\ last.pos.y_pos =
                     align(last.rule.y_align, box.h, FitInnerH,
                           last.rule.margins.bottom,
                           last.rule.margins.top).value)

\* a box holding only an aspect ratio was laid out and its height is not
\* the content height plus margins
C7_Witness ==
    /\ FitReturned
    /\ ~Known(last.pre.w) /\ ~Known(last.pre.h) /\ Known(last.pre.ar)
    /\ box.h # Add(Add(FitInnerH, FitBottom), FitTop)
    /\ last.rule.margins.right > 0

\* the height the container has when fit processes the height axis
FitHeightAtAxis ==
    IF Known(last.pre.h) THEN last.pre.h
    ELSE IF Known(last.pre.ar) /\ ~Known(last.pre.w)
    THEN Trunc(Div(Add(Add(FitInnerW, FitLeft), FitRight), last.pre.ar))
    ELSE None
FitTooWide ==
    \/ Known(last.pre.w) /\ Less(last.pre.w, Add(FitLeft, FitRight))
    \/ Known(FitHeightAtAxis)
          /\ Less(FitHeightAtAxis, Add(FitBottom, FitTop))

\* C8: Margins.effective returns len - pre - post when that is not negative
\* and raises LayoutError otherwise; fit raises LayoutError exactly when a
\* resolved container dimension is smaller than the two margins of its
\* axis, and returns a Positioning in every other case.
C8_LayoutErrors ==
    /\ (last.op = "effective" =>
           LET d == last.args[1] - last.args[2] - last.args[3]
           IN  IF d >= 0
               THEN last.status = "ok" /\ last.value = Num(d)
               ELSE last.status = "LayoutError")
    /\ (last.op = "fit" =>
           /\ (last.status = "LayoutError" <=> FitTooWide)
           /\ (~FitTooWide => last.status = "ok" /\ last.pos # NoPos))

\* fit failed on the height it had itself derived from the aspect ratio
C8_Witness ==
    /\ last.op = "fit" /\ last.status = "LayoutError"
    /\ ~Known(last.pre.h) /\ Known(last.pre.ar)
    /\ last.rule.y_align = "ALIGN_MIN"
    /\ last.rule.inner_content_scaling = "NO_SCALING"

\* C9: fit never fails with BoxSpecificationError; once a fit has returned,
\* both dimensions are resolved and no later fit changes the box.
C9_FitWritesOnce ==
    [][ /\ (last'.op = "fit" => last'.status # "BoxSpecificationError")
        /\ (returned' => Known(box'.w) /\ Known(box'.h))
        /\ (returned /\ last'.op = "fit" => box' = box)
      ]_vars

\* after a fit that returned, a later fit failed on the same box
C9_Witness ==
    /\ returned
    /\ last.op = "fit" /\ last.status = "LayoutError"
    /\ Known(box.w) /\ Known(box.h)

\* C10: with a non-negative effective length, align returns pre for
\* ALIGN_MIN, len - inner - post for ALIGN_MAX, and for ALIGN_MID
\* pre + floor((eff - inner) / 2), or pre when the content is longer than
\* eff; it warns once in that last case and never otherwise.
C10_Align ==
    last.op = "align" =>
        LET len == last.args[1]
            inner == last.args[2]
            pre == last.args[3]
            post == last.args[4]
            eff == len - pre - post
            overflow == last.self = "ALIGN_MID" /\ eff >= 0 /\ inner > eff
        IN  /\ last.warnings = (IF overflow THEN 1 ELSE 0)
            /\ (eff >= 0 =>
                  /\ last.status = "ok"
                  /\ last.value =
                        Num(IF last.self = "ALIGN_MIN" THEN pre
                            ELSE IF last.self = "ALIGN_MAX"
                            THEN len - inner - post
                            ELSE IF inner <= eff
                            THEN pre + ((eff - inner) \div 2)
                            ELSE pre))

\* ALIGN_MID fell back to the pre-margin with one warning
C10_Witness ==
    /\ last.op = "align" /\ last.self = "ALIGN_MID"
    /\ last.warnings = 1 /\ last.status = "ok"
    /\ last.args[3] > 0

\* ALIGN_MAX of content longer than the effective length: no warning
C10_MaxOverflow ==
    /\ last.op = "align" /\ last.self = "ALIGN_MAX"
    /\ last.status = "ok"
    /\ last.args[2] > last.args[1] - last.args[3] - last.args[4]

====
